---------------------------- MODULE Spec2Model ----------------------------
(***************************************************************************)
(* State-machine model of the bookmark reconciliation controller          *)
(* (src/components/BookmarkManager.tsx), the snapshot loader               *)
(* (src/app/dashboard/page.tsx) and the record store / change stream they  *)
(* talk to.  One tab (one mounted component instance) is modelled; writes  *)
(* of other tabs and other users reach it through the store.               *)
(***************************************************************************)
EXTENDS Integers, Sequences, FiniteSets, TLC

(***************************************************************************)
(* Bounds                                                                  *)
(***************************************************************************)
MaxIds == 2            \* rows the store ever creates (identifiers 1..MaxIds)
MaxEffectRuns == 2     \* runs of the subscription effect (mount + identity changes)
MaxInputLen == 2       \* longest string typed into a form input
MaxClients == 2        \* client instances counted (the count stops there)
MaxPathLen == 2        \* segments of a requested path

(***************************************************************************)
(* Program constants                                                       *)
(***************************************************************************)
HighlightWindow == 2   \* setTimeout(..., 2000): the window in seconds

Users == {"u1", "u2"}
Ids == 1..MaxIds

NoId == 0              \* null of `deleting`, and the id of NoRow
NoError == "null"      \* null of `error`
MsgRequired == "Both title and URL are required."
MsgInvalidUrl == "Please enter a valid URL"
MsgInsertFailed == "Failed to add bookmark. Please try again."

\* Characters of the form inputs: whitespace, a letter, the scheme separator.
Chars == {" ", "a", ":"}
RECURSIVE Strings(_)
Strings(n) ==
  IF n = 0 THEN { << >> }
  ELSE LET shorter == Strings(n - 1)
       IN shorter \cup { Append(s, c) : s \in { t \in shorter : Len(t) = n - 1 }, c \in Chars }
FormInputs == Strings(MaxInputLen)
GoodUrl == <<" ", "a", ":">>
GoodTitle == <<"a", " ">>

\* request paths as sequences of segments: the root path is << >>
Segments == {"dashboard", "dashboardx", "settings", "a", "login"}
Paths == UNION { [1..n -> Segments] : n \in 0..MaxPathLen }
NoRequest == [path |-> << >>, user |-> FALSE, sent |-> FALSE]
NoResponse == [gate |-> "none", page |-> "none"]

NoRow == [id |-> NoId, user_id |-> "none", created_at |-> 0]

VARIABLES
  store,          \* rows the record store holds (table bookmarks)
  nextId,         \* next identifier / creation timestamp the store assigns
  user,           \* user.id of the `user` prop (the session's identity)
  mounted,        \* the component instance is mounted
  bookmarks,      \* useState bookmarks: the rendered list
  url, title,     \* useState url, title: the form inputs
  loading,        \* useState loading: the add busy flag
  deleting,       \* useState deleting: id mid-deletion or NoId
  error,          \* useState error
  newIds,         \* useState newIds: recently-arrived markers
  timers,         \* pending setTimeout callbacks of addToList
  realtimeStatus, \* useState realtimeStatus
  channels,       \* every channel this instance created, in creation order
  channelRef,     \* channelRef.current (index into channels, 0 = null)
  insertReq,      \* the awaited insert request of addBookmark
  deleteReq,      \* the awaited delete request / rollback fetch of deleteBookmark
  age,            \* seconds since addToList last inserted each id (-1: never)
  arrived,        \* ids that reached addToList and were not deleted since
  clients,        \* client instances createClient() has constructed so far
  supabaseRef,    \* supabaseRef.current: the instance every call goes through
  signOutPc,      \* position of signOut: idle, removed, signedOut, navigated
  request,        \* the page request the server is answering: path and session
  response,       \* what middleware and page have answered to it so far
  lastOp          \* the handler that ran last, with the row it was about

vars == << store, nextId, user, mounted, bookmarks, url, title, loading,
           deleting, error, newIds, timers, realtimeStatus, channels,
           channelRef, insertReq, deleteReq, age, arrived, clients,
           supabaseRef, signOutPc, request, response, lastOp >>

(***************************************************************************)
(* Pure helpers                                                            *)
(***************************************************************************)
IdsOf(list) == { list[i].id : i \in 1..Len(list) }

Occurrences(list, id) == Cardinality({ i \in 1..Len(list) : list[i].id = id })

\* addToList without the identifier check
AddToListBookmarksNoDedup(prev, bookmark) == <<bookmark>> \o prev

\* addToList appending instead of prepending
AddToListBookmarksAppend(prev, bookmark) ==
  IF \E i \in 1..Len(prev) : prev[i].id = bookmark.id
    THEN prev
    ELSE prev \o <<bookmark>>

\* prev.some(b => b.id === bookmark.id) ? prev : [bookmark, ...prev]
AddToListBookmarks(prev, bookmark) ==
  IF \E i \in 1..Len(prev) : prev[i].id = bookmark.id
    THEN prev
    ELSE <<bookmark>> \o prev

\* new Set(prev).add(bookmark.id)
AddToListNewIds(prev, bookmark) == prev \cup {bookmark.id}

\* setTimeout(() => setNewIds(delete bookmark.id), 2000)
AddToListTimers(prev, bookmark) ==
  prev \cup {[id |-> bookmark.id, remaining |-> HighlightWindow]}

\* removeFromList that also drops the rows behind the removed one
RemoveFromListTruncate(prev, id) ==
  IF \E i \in 1..Len(prev) : prev[i].id = id
    THEN SubSeq(prev, 1, (CHOOSE i \in 1..Len(prev) : prev[i].id = id) - 1)
    ELSE prev

\* removeFromList that keeps the row
RemoveFromListNoop(prev, id) == prev

\* prev.filter(b => b.id !== id)
RECURSIVE RemoveFromList(_, _)
RemoveFromList(prev, id) ==
  IF prev = << >> THEN << >>
  ELSE IF Head(prev).id # id
    THEN <<Head(prev)>> \o RemoveFromList(Tail(prev), id)
    ELSE RemoveFromList(Tail(prev), id)

\* String.prototype.trim on a sequence of characters
RECURSIVE TrimLeft(_)
TrimLeft(s) ==
  IF s = << >> THEN s
  ELSE IF Head(s) = " " THEN TrimLeft(Tail(s)) ELSE s

RECURSIVE TrimRight(_)
TrimRight(s) ==
  IF s = << >> THEN s
  ELSE IF s[Len(s)] = " " THEN TrimRight(SubSeq(s, 1, Len(s) - 1)) ELSE s

Trim(s) == TrimRight(TrimLeft(s))

\* new URL(s) succeeds: s starts with a scheme (letters, then ":"); without a
\* base URL every other input throws.
RECURSIVE HasScheme(_, _)
HasScheme(s, seen) ==
  IF s = << >> THEN FALSE
  ELSE IF Head(s) = "a" THEN HasScheme(Tail(s), TRUE)
  ELSE IF Head(s) = ":" THEN seen
  ELSE FALSE

ParsesAsURL(s) == HasScheme(s, FALSE)

\* the validation without trimming the inputs
ValidationErrorNoTrim(u, t) ==
  IF u = << >> \/ t = << >> THEN MsgRequired
  ELSE IF ~ParsesAsURL(Trim(u)) THEN MsgInvalidUrl
  ELSE NoError

\* the validation of addBookmark: the message it sets, NoError when it passes
ValidationError(u, t) ==
  IF Trim(u) = << >> \/ Trim(t) = << >> THEN MsgRequired
  ELSE IF ~ParsesAsURL(Trim(u)) THEN MsgInvalidUrl
  ELSE NoError

\* select("*").order("created_at", {ascending: false}) under row-level
\* security: the rows of `owner`, newest first
RECURSIVE OrderDesc(_)
OrderDesc(rows) ==
  IF rows = {} THEN << >>
  ELSE LET newest == CHOOSE r \in rows : \A q \in rows : q.created_at <= r.created_at
       IN <<newest>> \o OrderDesc(rows \ {newest})

FetchRows(rows, owner) == OrderDesc({ r \in rows : r.user_id = owner })

(***************************************************************************)
(* Channels                                                                *)
(***************************************************************************)
LiveStates == {"joining", "joined", "errored"}
Live(c) == c.state \in LiveStates
LiveChannels == { i \in 1..Len(channels) : Live(channels[i]) }

\* supabase.channel(...).on(INSERT).on(DELETE).subscribe(cb), for user.id = u
NewChannel(u) == [state |-> "joining", user_id |-> u, queue |-> << >>]

\* supabase.removeChannel(channels[i]); i = 0 is the null reference
RemoveChannel(chs, i) ==
  IF i \in 1..Len(chs) /\ Live(chs[i])
    THEN [chs EXCEPT ![i] = [@ EXCEPT !.state = "closing", !.queue = << >>]]
    ELSE chs

\* the store publishes a change to every joined subscription of the table
Publish(chs, event, row) ==
  [i \in 1..Len(chs) |->
     IF chs[i].state = "joined"
       THEN [chs[i] EXCEPT !.queue = Append(@, [event |-> event, row |-> row])]
       ELSE chs[i]]

\* a rollback that never replaces the list
RollbackKeep(prev, hasData, data) == prev

\* a rollback that empties the list when the re-fetch returns no data
RollbackEmptyOnNoData(prev, hasData, data) == IF hasData THEN data ELSE << >>

\* if (data) setBookmarks(data)
Rollback(prev, hasData, data) == IF hasData THEN data ELSE prev

\* React drops state updates of an unmounted component
SetState(new, old) == IF mounted THEN new ELSE old

\* a status callback that lets TIMED_OUT fall through to the else branch
StatusForTimedOutFallsThrough(status) ==
  IF status = "SUBSCRIBED" THEN "connected"
  ELSE IF status = "CHANNEL_ERROR" THEN "error"
  ELSE "connecting"

\* the subscribe callback's mapping of a channel status to realtimeStatus
StatusFor(status) ==
  IF status = "SUBSCRIBED" THEN "connected"
  ELSE IF status = "CHANNEL_ERROR" \/ status = "TIMED_OUT" THEN "error"
  ELSE "connecting"

Op(name, row) == [op |-> name, row |-> row]

IdleInsert == [stage |-> "idle", user_id |-> "none", ok |-> FALSE, data |-> NoRow]
IdleDelete == [stage |-> "idle", id |-> NoId, user_id |-> "none", ok |-> FALSE,
               hasData |-> FALSE, data |-> << >>]

\* the subscription effect re-runs: cleanup of the previous run (removeChannel
\* of its own channel), then the body (removeChannel(channelRef.current) and
\* a fresh channel)
UseEffectCleanupNoop(chs) == chs

UseEffectCleanup(chs) == RemoveChannel(chs, Len(chs))

UseEffectBody(chs, ref, u) == Append(RemoveChannel(chs, ref), NewChannel(u))

\* a re-run that subscribes again without retiring the previous channel
UseEffectRerunNoTeardown(chs, ref, u) == Append(chs, NewChannel(u))

UseEffectRerun(chs, ref, u) == UseEffectBody(UseEffectCleanup(chs), ref, u)

\* the marker bookkeeping of one addToList(row) call: actual insertions
\* restart the age of the id
AgeAfterAdd(prev, row) ==
  IF mounted /\ row.id \notin IdsOf(prev) THEN [age EXCEPT ![row.id] = 0] ELSE age

\* createClient(): every call constructs a client instance (the instances
\* are counted up to MaxClients)
CreateClient(n) == IF n < MaxClients THEN n + 1 ELSE n

\* the state and props a render pass depends on
Rendered == << user, bookmarks, url, title, loading, deleting, error, newIds,
               realtimeStatus >>

\* a step that changed state or props of the mounted component is followed
\* by a render pass: the component body runs again and evaluates
\* useRef(createClient()); useRef keeps the value of the first pass
Render ==
  /\ clients' = IF mounted' /\ Rendered' # Rendered
                   THEN CreateClient(clients)
                   ELSE clients
  /\ supabaseRef' = supabaseRef

(***************************************************************************)
(* Initial state: DashboardContent has fetched the snapshot, the component *)
(* has rendered once and its subscription effect has run.                  *)
(***************************************************************************)
InitStores ==
  { rows \in SUBSET [id : Ids, user_id : Users, created_at : Ids] :
      /\ \A r \in rows : r.created_at = r.id
      /\ \A r, q \in rows : r.id = q.id => r = q
      /\ \A r \in rows : \A j \in 1..r.id : \E q \in rows : q.id = j }

Init ==
  /\ store \in InitStores
  /\ nextId = Cardinality(store) + 1
  /\ user = "u1"
  /\ mounted = TRUE
  /\ bookmarks \in { FetchRows(store, user), << >> }
  /\ url = << >>
  /\ title = << >>
  /\ loading = FALSE
  /\ deleting = NoId
  /\ error = NoError
  /\ newIds = {}
  /\ timers = {}
  /\ realtimeStatus = "connecting"
  /\ channels = UseEffectBody(<< >>, 0, user)
  /\ channelRef = 1
  /\ insertReq = IdleInsert
  /\ deleteReq = IdleDelete
  /\ age = [i \in Ids |-> -1]
  /\ arrived = {}
  /\ clients = CreateClient(0)
  /\ supabaseRef = clients
  /\ signOutPc = "idle"
  /\ request = NoRequest
  /\ response = NoResponse
  /\ lastOp = Op("mount", NoRow)

(***************************************************************************)
(* Form                                                                    *)
(***************************************************************************)
\* onChange of the URL input (disabled while loading)
TypeUrl(s) ==
  /\ mounted /\ ~loading
  /\ url # s
  /\ url' = s
  /\ lastOp' = Op("setUrl", NoRow)
  /\ UNCHANGED << store, nextId, user, mounted, bookmarks, title, loading,
                  deleting, error, newIds, timers, realtimeStatus, channels,
                  channelRef, insertReq, deleteReq, age, arrived >>
  /\ Render
  /\ UNCHANGED << signOutPc, request, response >>

\* onChange of the title input (disabled while loading)
TypeTitle(s) ==
  /\ mounted /\ ~loading
  /\ title # s
  /\ title' = s
  /\ lastOp' = Op("setTitle", NoRow)
  /\ UNCHANGED << store, nextId, user, mounted, bookmarks, url, loading,
                  deleting, error, newIds, timers, realtimeStatus, channels,
                  channelRef, insertReq, deleteReq, age, arrived >>
  /\ Render
  /\ UNCHANGED << signOutPc, request, response >>

(***************************************************************************)
(* addBookmark                                                             *)
(***************************************************************************)
\* a form that stays enabled while a request is awaited
CanSubmitWhileLoading == TRUE

\* disabled={loading} on both inputs and on the Add button
CanSubmit == ~loading

\* Add button click or Enter in an input (both disabled while loading), up
\* to the awaited insert
AddBookmark ==
  /\ mounted /\ CanSubmit
  /\ lastOp' = Op("addBookmark", NoRow)
  /\ IF ValidationError(url, title) # NoError
       THEN /\ error' = ValidationError(url, title)
            /\ UNCHANGED << loading, insertReq >>
       ELSE /\ error' = NoError
            /\ loading' = TRUE
            /\ insertReq' = [stage |-> "sent", user_id |-> user, ok |-> FALSE,
                             data |-> NoRow]
  /\ UNCHANGED << store, nextId, user, mounted, bookmarks, url, title,
                  deleting, newIds, timers, realtimeStatus, channels,
                  channelRef, deleteReq, age, arrived >>
  /\ Render
  /\ UNCHANGED << signOutPc, request, response >>

\* the store executes insert(...).select().single(): it assigns identifier
\* and timestamp and publishes the INSERT, or rejects the request
StoreInsert ==
  /\ insertReq.stage = "sent"
  /\ \/ /\ nextId <= MaxIds
        /\ LET row == [id |-> nextId, user_id |-> insertReq.user_id,
                       created_at |-> nextId]
           IN /\ store' = store \cup {row}
              /\ channels' = Publish(channels, "INSERT", row)
              /\ insertReq' = [insertReq EXCEPT !.stage = "done", !.ok = TRUE,
                                                !.data = row]
              /\ lastOp' = Op("storeInsert", row)
        /\ nextId' = nextId + 1
     \/ /\ insertReq' = [insertReq EXCEPT !.stage = "done", !.ok = FALSE]
        /\ lastOp' = Op("storeInsertRejected", NoRow)
        /\ UNCHANGED << store, nextId, channels >>
  /\ UNCHANGED << user, mounted, bookmarks, url, title, loading, deleting,
                  error, newIds, timers, realtimeStatus, channelRef,
                  deleteReq, age, arrived >>
  /\ Render
  /\ UNCHANGED << signOutPc, request, response >>

\* an error branch that returns before the busy flag is released
LoadingAfterInsertErrorReturns(ok) == ~ok

\* a success branch that returns before the busy flag is released
LoadingAfterInsertSuccessReturns(ok) == ok

\* setLoading(false) follows both branches of the response handling
LoadingAfterInsert(ok) == FALSE

\* addBookmark after the await
AddResponse ==
  /\ insertReq.stage = "done"
  /\ IF insertReq.ok
       THEN /\ bookmarks' = SetState(AddToListBookmarks(bookmarks, insertReq.data), bookmarks)
            /\ newIds' = SetState(AddToListNewIds(newIds, insertReq.data), newIds)
            /\ timers' = AddToListTimers(timers, insertReq.data)
            /\ age' = AgeAfterAdd(bookmarks, insertReq.data)
            /\ arrived' = SetState(arrived \cup {insertReq.data.id}, arrived)
            /\ url' = SetState(<< >>, url)
            /\ title' = SetState(<< >>, title)
            /\ lastOp' = Op("addResponse", insertReq.data)
            /\ UNCHANGED error
       ELSE /\ error' = SetState(MsgInsertFailed, error)
            /\ lastOp' = Op("addResponseError", NoRow)
            /\ UNCHANGED << bookmarks, newIds, timers, age, arrived, url, title >>
  /\ loading' = SetState(LoadingAfterInsert(insertReq.ok), loading)
  /\ insertReq' = IdleInsert
  /\ UNCHANGED << store, nextId, user, mounted, deleting, realtimeStatus,
                  channels, channelRef, deleteReq >>
  /\ Render
  /\ UNCHANGED << signOutPc, request, response >>


(***************************************************************************)
(* deleteBookmark                                                          *)
(***************************************************************************)
\* delete buttons that stay enabled while a delete is awaited
CanDeleteAlways == TRUE

\* delete buttons that are also disabled while an add is awaited
CanDeleteUnlessLoading == deleting = NoId /\ ~loading

\* disabled={!!deleting} on the delete button of every row
CanDelete == deleting = NoId

\* click on the delete button of a rendered row (disabled={!!deleting}), up
\* to the awaited delete
DeleteBookmark(id) ==
  /\ mounted /\ CanDelete
  /\ id \in IdsOf(bookmarks)
  /\ bookmarks' = RemoveFromList(bookmarks, id)
  /\ deleting' = id
  /\ deleteReq' = [IdleDelete EXCEPT !.stage = "sent", !.id = id, !.user_id = user]
  /\ arrived' = arrived \ {id}
  /\ lastOp' = Op("deleteBookmark", [NoRow EXCEPT !.id = id])
  /\ UNCHANGED << store, nextId, user, mounted, url, title, loading, error,
                  newIds, timers, realtimeStatus, channels, channelRef,
                  insertReq, age >>
  /\ Render
  /\ UNCHANGED << signOutPc, request, response >>

\* the store executes delete().eq("id", id).eq("user_id", user.id): it
\* removes the matching row and publishes the DELETE, or rejects the request
StoreDelete ==
  /\ deleteReq.stage = "sent"
  /\ \/ LET hit == { r \in store : r.id = deleteReq.id /\ r.user_id = deleteReq.user_id }
        IN /\ store' = store \ hit
           /\ channels' = IF hit = {} THEN channels
                          ELSE Publish(channels, "DELETE", CHOOSE r \in hit : TRUE)
           /\ deleteReq' = [deleteReq EXCEPT !.stage = "done", !.ok = TRUE]
           /\ lastOp' = Op("storeDelete", [NoRow EXCEPT !.id = deleteReq.id])
     \/ /\ deleteReq' = [deleteReq EXCEPT !.stage = "done", !.ok = FALSE]
        /\ lastOp' = Op("storeDeleteRejected", [NoRow EXCEPT !.id = deleteReq.id])
        /\ UNCHANGED << store, channels >>
  /\ UNCHANGED << nextId, user, mounted, bookmarks, url, title, loading,
                  deleting, error, newIds, timers, realtimeStatus, channelRef,
                  insertReq, age, arrived >>
  /\ Render
  /\ UNCHANGED << signOutPc, request, response >>

\* deleteBookmark after the first await: done, or the rollback re-fetch
DeleteResponse ==
  /\ deleteReq.stage = "done"
  /\ IF deleteReq.ok
       THEN /\ deleting' = SetState(NoId, deleting)
            /\ deleteReq' = IdleDelete
            /\ lastOp' = Op("deleteResponse", [NoRow EXCEPT !.id = deleteReq.id])
       ELSE /\ deleteReq' = [deleteReq EXCEPT !.stage = "fetchSent", !.user_id = user]
            /\ lastOp' = Op("deleteResponseError", [NoRow EXCEPT !.id = deleteReq.id])
            /\ UNCHANGED deleting
  /\ UNCHANGED << store, nextId, user, mounted, bookmarks, url, title, loading,
                  error, newIds, timers, realtimeStatus, channels, channelRef,
                  insertReq, age, arrived >>
  /\ Render
  /\ UNCHANGED << signOutPc, request, response >>

\* the store executes the rollback select: the owner's rows newest first,
\* or no data
StoreFetch ==
  /\ deleteReq.stage = "fetchSent"
  /\ \/ deleteReq' = [deleteReq EXCEPT !.stage = "fetchDone", !.hasData = TRUE,
                                       !.data = FetchRows(store, deleteReq.user_id)]
     \/ deleteReq' = [deleteReq EXCEPT !.stage = "fetchDone", !.hasData = FALSE]
  /\ lastOp' = Op("storeFetch", NoRow)
  /\ UNCHANGED << store, nextId, user, mounted, bookmarks, url, title, loading,
                  deleting, error, newIds, timers, realtimeStatus, channels,
                  channelRef, insertReq, age, arrived >>
  /\ Render
  /\ UNCHANGED << signOutPc, request, response >>

\* deleteBookmark after the second await: if (data) setBookmarks(data)
FetchResponse ==
  /\ deleteReq.stage = "fetchDone"
  /\ bookmarks' = SetState(Rollback(bookmarks, deleteReq.hasData, deleteReq.data), bookmarks)
  /\ deleting' = SetState(NoId, deleting)
  /\ deleteReq' = IdleDelete
  /\ lastOp' = Op("fetchResponse", [NoRow EXCEPT !.id = deleteReq.id])
  /\ UNCHANGED << store, nextId, user, mounted, url, title, loading, error,
                  newIds, timers, realtimeStatus, channels, channelRef,
                  insertReq, age, arrived >>
  /\ Render
  /\ UNCHANGED << signOutPc, request, response >>

(***************************************************************************)
(* Change notifications                                                    *)
(***************************************************************************)
\* the INSERT handler without the owner check
OnInsertNoCheck(i, incoming) ==
  /\ lastOp' = Op("onInsert", incoming)
  /\ bookmarks' = AddToListBookmarks(bookmarks, incoming)
  /\ newIds' = AddToListNewIds(newIds, incoming)
  /\ timers' = AddToListTimers(timers, incoming)
  /\ age' = AgeAfterAdd(bookmarks, incoming)
  /\ arrived' = arrived \cup {incoming.id}

\* the INSERT handler of channel i: owner check, then addToList
OnInsert(i, incoming) ==
  /\ lastOp' = Op("onInsert", incoming)
  /\ IF incoming.user_id # channels[i].user_id
       THEN UNCHANGED << bookmarks, newIds, timers, age, arrived >>
       ELSE /\ bookmarks' = AddToListBookmarks(bookmarks, incoming)
            /\ newIds' = AddToListNewIds(newIds, incoming)
            /\ timers' = AddToListTimers(timers, incoming)
            /\ age' = AgeAfterAdd(bookmarks, incoming)
            /\ arrived' = arrived \cup {incoming.id}

\* the DELETE handler: removeFromList(deleted.id), no owner check
OnDelete(deleted) ==
  /\ lastOp' = Op("onDelete", deleted)
  /\ bookmarks' = RemoveFromList(bookmarks, deleted.id)
  /\ arrived' = arrived \ {deleted.id}
  /\ UNCHANGED << newIds, timers, age >>

\* the next queued change of subscription i reaches its handler
Deliver(i) ==
  /\ i \in LiveChannels
  /\ channels[i].queue # << >>
  /\ LET n == Head(channels[i].queue)
     IN IF n.event = "INSERT" THEN OnInsert(i, n.row) ELSE OnDelete(n.row)
  /\ channels' = [channels EXCEPT ![i].queue = Tail(@)]
  /\ UNCHANGED << store, nextId, user, mounted, url, title, loading, deleting,
                  error, realtimeStatus, channelRef, insertReq, deleteReq >>
  /\ Render
  /\ UNCHANGED << signOutPc, request, response >>

\* the subscribe callback of channel i
SubscribeStatus(i, status) ==
  /\ i \in 1..Len(channels)
  /\ \/ /\ status = "SUBSCRIBED"
        /\ channels[i].state \in {"joining", "errored"}
        /\ channels' = [channels EXCEPT ![i].state = "joined"]
        /\ realtimeStatus' = SetState(StatusFor(status), realtimeStatus)
     \/ /\ status = "CHANNEL_ERROR"
        /\ channels[i].state \in {"joining", "joined"}
        /\ channels' = [channels EXCEPT ![i].state = "errored", ![i].queue = << >>]
        /\ realtimeStatus' = SetState(StatusFor(status), realtimeStatus)
     \/ /\ status = "TIMED_OUT"
        /\ channels[i].state = "joining"
        /\ channels' = [channels EXCEPT ![i].state = "errored"]
        /\ realtimeStatus' = SetState(StatusFor(status), realtimeStatus)
     \/ /\ status = "CLOSED"
        /\ channels[i].state = "closing"
        /\ channels' = [channels EXCEPT ![i].state = "closed"]
        /\ realtimeStatus' = SetState(StatusFor(status), realtimeStatus)
  /\ lastOp' = Op(status, NoRow)
  /\ UNCHANGED << store, nextId, user, mounted, bookmarks, url, title, loading,
                  deleting, error, newIds, timers, channelRef, insertReq,
                  deleteReq, age, arrived >>
  /\ Render
  /\ UNCHANGED << signOutPc, request, response >>

(***************************************************************************)
(* Component lifecycle                                                     *)
(***************************************************************************)
\* the `user` prop changes identity: the effect's dependency user.id changes
IdentityChange(u) ==
  /\ mounted
  /\ u # user
  /\ Len(channels) < MaxEffectRuns
  /\ user' = u
  /\ channels' = UseEffectRerun(channels, channelRef, u)
  /\ channelRef' = Len(channels')
  /\ lastOp' = Op("effect", NoRow)
  /\ UNCHANGED << store, nextId, mounted, bookmarks, url, title, loading,
                  deleting, error, newIds, timers, realtimeStatus, insertReq,
                  deleteReq, age, arrived >>
  /\ Render
  /\ UNCHANGED << signOutPc, request, response >>

\* the component unmounts: the effect's cleanup runs
Unmount ==
  /\ mounted
  /\ mounted' = FALSE
  /\ channels' = UseEffectCleanup(channels)
  /\ lastOp' = Op("unmount", NoRow)
  /\ UNCHANGED << store, nextId, user, bookmarks, url, title, loading,
                  deleting, error, newIds, timers, realtimeStatus, channelRef,
                  insertReq, deleteReq, age, arrived >>
  /\ Render
  /\ UNCHANGED << signOutPc, request, response >>

(***************************************************************************)
(* signOut                                                                 *)
(***************************************************************************)
\* the identity gateway has terminated the session
SessionTerminated == signOutPc \in {"signedOut", "navigated"}

\* a sign-out that leaves the subscription alone
SignOutTeardownNoop(chs, ref) == chs

\* if (channelRef.current) await supabase.removeChannel(channelRef.current)
SignOutTeardown(chs, ref) == RemoveChannel(chs, ref)

\* click on Sign out, up to the first await
SignOut ==
  /\ mounted
  /\ signOutPc = "idle"
  /\ channels' = SignOutTeardown(channels, channelRef)
  /\ signOutPc' = "removed"
  /\ lastOp' = Op("signOut", NoRow)
  /\ UNCHANGED << store, nextId, user, mounted, bookmarks, url, title, loading,
                  deleting, error, newIds, timers, realtimeStatus, channelRef,
                  insertReq, deleteReq, age, arrived >>
  /\ Render
  /\ UNCHANGED << request, response >>

\* await supabase.auth.signOut()
AuthSignOut ==
  /\ signOutPc = "removed"
  /\ signOutPc' = "signedOut"
  /\ lastOp' = Op("authSignOut", NoRow)
  /\ UNCHANGED << store, nextId, user, mounted, bookmarks, url, title, loading,
                  deleting, error, newIds, timers, realtimeStatus, channels,
                  channelRef, insertReq, deleteReq, age, arrived >>
  /\ Render
  /\ UNCHANGED << request, response >>

\* window.location.href = "/": the page is left, the component unmounts
Navigate ==
  /\ signOutPc = "signedOut"
  /\ signOutPc' = "navigated"
  /\ mounted' = FALSE
  /\ channels' = UseEffectCleanup(channels)
  /\ lastOp' = Op("navigate", NoRow)
  /\ UNCHANGED << store, nextId, user, bookmarks, url, title, loading,
                  deleting, error, newIds, timers, realtimeStatus, channelRef,
                  insertReq, deleteReq, age, arrived >>
  /\ Render
  /\ UNCHANGED << request, response >>

(***************************************************************************)
(* Route gate: middleware.ts and app/dashboard/page.tsx                    *)
(***************************************************************************)
\* a matcher that names the dashboard path alone
MatcherExact(path) == path = << "dashboard" >>

\* config.matcher "/dashboard/:path*": /dashboard and every path below it
Matcher(path) == Len(path) >= 1 /\ path[1] = "dashboard"

\* request.nextUrl.pathname.startsWith("/dashboard")
StartsWithDashboard(path) ==
  Len(path) >= 1 /\ path[1] \in {"dashboard", "dashboardx"}

\* the middleware's answer; it runs only for paths the matcher selects
Middleware(path, hasUser) ==
  IF ~Matcher(path) THEN "next"
  ELSE IF ~hasUser /\ StartsWithDashboard(path) THEN "redirect"
  ELSE "next"

\* the route's answer: app/dashboard/page.tsx serves /dashboard only
Page(path, hasUser) ==
  IF path # << "dashboard" >> THEN "other"
  ELSE IF ~hasUser THEN "redirect"
  ELSE "content"

\* a request arrives and the middleware answers it
GateRequest(path, hasUser) ==
  /\ request' = [path |-> path, user |-> hasUser, sent |-> TRUE]
  /\ response' = [gate |-> Middleware(path, hasUser), page |-> "none"]
  /\ lastOp' = Op("middleware", NoRow)
  /\ UNCHANGED << store, nextId, user, mounted, bookmarks, url, title, loading,
                  deleting, error, newIds, timers, realtimeStatus, channels,
                  channelRef, insertReq, deleteReq, age, arrived, clients,
                  supabaseRef, signOutPc >>

\* a request the middleware passed on reaches its route
PageRender ==
  /\ request.sent
  /\ response.gate = "next"
  /\ response.page = "none"
  /\ response' = [response EXCEPT !.page = Page(request.path, request.user)]
  /\ lastOp' = Op("page", NoRow)
  /\ UNCHANGED << store, nextId, user, mounted, bookmarks, url, title, loading,
                  deleting, error, newIds, timers, realtimeStatus, channels,
                  channelRef, insertReq, deleteReq, age, arrived, clients,
                  supabaseRef, signOutPc, request >>

\* the browser follows a redirect to the entry point
FollowRedirect ==
  /\ request.sent
  /\ response.gate = "redirect" \/ response.page = "redirect"
  /\ request' = [request EXCEPT !.path = << >>]
  /\ response' = [gate |-> Middleware(<< >>, request.user), page |-> "none"]
  /\ lastOp' = Op("followRedirect", NoRow)
  /\ UNCHANGED << store, nextId, user, mounted, bookmarks, url, title, loading,
                  deleting, error, newIds, timers, realtimeStatus, channels,
                  channelRef, insertReq, deleteReq, age, arrived, clients,
                  supabaseRef, signOutPc >>

(***************************************************************************)
(* Highlight timers                                                        *)
(***************************************************************************)
\* a setTimeout callback of addToList runs
TimerFire(t) ==
  /\ t \in timers
  /\ t.remaining = 0
  /\ timers' = timers \ {t}
  /\ newIds' = SetState(newIds \ {t.id}, newIds)
  /\ lastOp' = Op("timeout", [NoRow EXCEPT !.id = t.id])
  /\ UNCHANGED << store, nextId, user, mounted, bookmarks, url, title, loading,
                  deleting, error, realtimeStatus, channels, channelRef,
                  insertReq, deleteReq, age, arrived >>
  /\ Render
  /\ UNCHANGED << signOutPc, request, response >>

\* one second passes; due callbacks run before the clock moves on
Tick ==
  /\ \A t \in timers : t.remaining > 0
  /\ timers # {} \/ \E i \in Ids : age[i] \in 0..HighlightWindow
  /\ timers' = { [t EXCEPT !.remaining = @ - 1] : t \in timers }
  /\ age' = [i \in Ids |-> IF age[i] \in 0..HighlightWindow THEN age[i] + 1 ELSE age[i]]
  /\ lastOp' = Op("tick", NoRow)
  /\ UNCHANGED << store, nextId, user, mounted, bookmarks, url, title, loading,
                  deleting, error, newIds, realtimeStatus, channels,
                  channelRef, insertReq, deleteReq, arrived >>
  /\ Render
  /\ UNCHANGED << signOutPc, request, response >>

(***************************************************************************)
(* Writes of other tabs and other users                                    *)
(***************************************************************************)
RemoteInsert(u) ==
  /\ nextId <= MaxIds
  /\ LET row == [id |-> nextId, user_id |-> u, created_at |-> nextId]
     IN /\ store' = store \cup {row}
        /\ channels' = Publish(channels, "INSERT", row)
        /\ lastOp' = Op("remoteInsert", row)
  /\ nextId' = nextId + 1
  /\ UNCHANGED << user, mounted, bookmarks, url, title, loading, deleting,
                  error, newIds, timers, realtimeStatus, channelRef, insertReq,
                  deleteReq, age, arrived >>
  /\ Render
  /\ UNCHANGED << signOutPc, request, response >>

RemoteDelete(r) ==
  /\ r \in store
  /\ store' = store \ {r}
  /\ channels' = Publish(channels, "DELETE", r)
  /\ lastOp' = Op("remoteDelete", r)
  /\ UNCHANGED << nextId, user, mounted, bookmarks, url, title, loading,
                  deleting, error, newIds, timers, realtimeStatus, channelRef,
                  insertReq, deleteReq, age, arrived >>
  /\ Render
  /\ UNCHANGED << signOutPc, request, response >>

\* the environment's events, by source
Typing(urls, titles) ==
  \/ \E s \in urls : TypeUrl(s)
  \/ \E s \in titles : TypeTitle(s)

AddPath == AddBookmark \/ StoreInsert \/ AddResponse

DeletePath ==
  \/ \E id \in Ids : DeleteBookmark(id)
  \/ StoreDelete
  \/ DeleteResponse
  \/ StoreFetch
  \/ FetchResponse

Stream == \E i \in 1..MaxEffectRuns : Deliver(i)

StatusEvents(statuses) ==
  \E i \in 1..MaxEffectRuns : \E status \in statuses : SubscribeStatus(i, status)

Lifecycle == (\E u \in Users : IdentityChange(u)) \/ Unmount

SignOutPath == SignOut \/ AuthSignOut \/ Navigate

Clock == (\E t \in timers : TimerFire(t)) \/ Tick

Remote == (\E u \in Users : RemoteInsert(u)) \/ (\E r \in store : RemoteDelete(r))

AllStatuses == {"SUBSCRIBED", "CHANNEL_ERROR", "TIMED_OUT", "CLOSED"}

\* the list under local writes, remote writes and notifications
Next ==
  \/ Typing({GoodUrl}, {GoodTitle})
  \/ AddPath
  \/ DeletePath
  \/ Stream
  \/ StatusEvents({"SUBSCRIBED"})
  \/ Remote

Spec == Init /\ [][Next]_vars

\* a first visit: the store holds no rows yet
InitEmpty == Init /\ store = {}

\* local writes and their notifications with the clock running: highlight
\* timers expire
NextClock ==
  \/ Typing({GoodUrl}, {GoodTitle})
  \/ AddPath
  \/ DeletePath
  \/ Stream
  \/ StatusEvents({"SUBSCRIBED"})
  \/ Clock

SpecClock == InitEmpty /\ [][NextClock]_vars

\* the subscription's whole lifecycle under remote writes: every status
\* event, identity changes of the `user` prop, unmount, sign-out
NextLifecycle ==
  \/ Stream
  \/ StatusEvents(AllStatuses)
  \/ Lifecycle
  \/ SignOutPath
  \/ Remote

SpecLifecycle == Init /\ [][NextLifecycle]_vars

\* local writes alone: the add and delete requests and their responses
NextBusy == Typing({GoodUrl}, {GoodTitle}) \/ AddPath \/ DeletePath

SpecBusy == Init /\ [][NextBusy]_vars

\* the continuation of an await runs once its promise has settled: a
\* response that has arrived is eventually handled
FairSpecBusy ==
  /\ SpecBusy
  /\ WF_vars(AddResponse)
  /\ WF_vars(DeleteResponse)
  /\ WF_vars(FetchResponse)

\* page requests with and without a session, over every path
NextGate ==
  \/ \E path \in Paths : \E hasUser \in BOOLEAN : GateRequest(path, hasUser)
  \/ PageRender
  \/ FollowRedirect

SpecGate == InitEmpty /\ [][NextGate]_vars

\* the add form alone, over every input string, on an empty store
NextForm == Typing(FormInputs, FormInputs) \/ AddPath

SpecForm == InitEmpty /\ [][NextForm]_vars

\* deletes, their rollback and the notification stream under remote writes
NextDelete ==
  \/ DeletePath
  \/ Stream
  \/ StatusEvents({"SUBSCRIBED"})
  \/ Remote

SpecDelete == Init /\ [][NextDelete]_vars

\* the tab after its snapshot has loaded and its subscription has been
\* acknowledged, before any write
InitSubscribed ==
  /\ store \in InitStores
  /\ nextId = Cardinality(store) + 1
  /\ user = "u1"
  /\ mounted = TRUE
  /\ bookmarks = FetchRows(store, user)
  /\ url = << >>
  /\ title = << >>
  /\ loading = FALSE
  /\ deleting = NoId
  /\ error = NoError
  /\ newIds = {}
  /\ timers = {}
  /\ realtimeStatus = StatusFor("SUBSCRIBED")
  /\ channels = << [NewChannel(user) EXCEPT !.state = "joined"] >>
  /\ channelRef = 1
  /\ insertReq = IdleInsert
  /\ deleteReq = IdleDelete
  /\ age = [i \in Ids |-> -1]
  /\ arrived = {}
  /\ clients = CreateClient(0)
  /\ supabaseRef = clients
  /\ signOutPc = "idle"
  /\ request = NoRequest
  /\ response = NoResponse
  /\ lastOp = Op("SUBSCRIBED", NoRow)

\* a subscribed tab under local and remote writes; the subscription stays
\* joined and every rollback re-fetch returns data
NextConverge ==
  \/ Typing({GoodUrl}, {GoodTitle})
  \/ AddPath
  \/ \E id \in Ids : DeleteBookmark(id)
  \/ StoreDelete
  \/ DeleteResponse
  \/ StoreFetch /\ deleteReq'.hasData
  \/ FetchResponse
  \/ Stream
  \/ Remote

SpecConverge == InitSubscribed /\ [][NextConverge]_vars

TypeOK ==
  /\ nextId \in 1..(MaxIds + 1)
  /\ user \in Users
  /\ mounted \in BOOLEAN
  /\ loading \in BOOLEAN
  /\ deleting \in Ids \cup {NoId}
  /\ newIds \subseteq Ids
  /\ realtimeStatus \in {"connecting", "connected", "error"}
  /\ channelRef \in 0..Len(channels)
  /\ clients \in 1..MaxClients
  /\ supabaseRef = 1
  /\ signOutPc \in {"idle", "removed", "signedOut", "navigated"}
  /\ request \in [path : Paths, user : BOOLEAN, sent : BOOLEAN]
  /\ response \in [gate : {"none", "next", "redirect"},
                    page : {"none", "other", "redirect", "content"}]


(***************************************************************************)
(* Properties                                                              *)
(***************************************************************************)
\* an addToList call runs in this step (an INSERT of a foreign owner never
\* gets that far); lastOp'.row is the row it is called with
Arrival ==
  /\ mounted
  /\ \/ lastOp'.op = "addResponse"
     \/ lastOp'.op = "onInsert" /\ lastOp'.row.user_id = user

\* C1: in every reachable state the rendered list holds no two records with
\* the same identifier.
NoDuplicateIds ==
  \A i, j \in 1..Len(bookmarks) : bookmarks[i].id = bookmarks[j].id => i = j

\* C1 witness: a rollback re-fetch has just replaced the list by two records.
RollbackOfTwoReached ==
  /\ lastOp.op = "fetchResponse"
  /\ Len(bookmarks) = 2
  /\ deleteReq.stage = "idle"

\* C2: an arrival of X at addToList after an earlier arrival of X, with no
\* delete of X in between, leaves the list unchanged with exactly one X.
SecondArrivalLeavesListUnchanged ==
  [][ Arrival /\ lastOp'.row.id \in arrived
        => bookmarks' = bookmarks /\ Occurrences(bookmarks', lastOp'.row.id) = 1 ]_vars

\* C3: an INSERT notification of a foreign owner changes neither the list
\* nor the marker set.
ForeignInsertDiscarded ==
  [][ lastOp'.op = "onInsert" /\ lastOp'.row.user_id # user
        => bookmarks' = bookmarks /\ newIds' = newIds ]_vars

\* C3 witness: the handler has just run for a row of another owner.
ForeignInsertDelivered ==
  /\ lastOp.op = "onInsert"
  /\ lastOp.row.user_id # user
  /\ lastOp.row \in store
  /\ lastOp.row.id \notin IdsOf(bookmarks)

\* a string that is empty after trimming
Blank(s) == \A i \in 1..Len(s) : s[i] = " "

\* C4: a submission with a blank title or URL, or a trimmed URL that does
\* not parse, issues no insert request, leaves list and busy flag unchanged
\* and sets a validation message.
InvalidSubmissionBlocked ==
  [][ lastOp'.op = "addBookmark"
      /\ (Blank(url) \/ Blank(title) \/ ~ParsesAsURL(Trim(url)))
        => /\ insertReq' = insertReq
           /\ insertReq'.stage = "idle"
           /\ store' = store
           /\ bookmarks' = bookmarks
           /\ loading' = loading
           /\ error' \in {MsgRequired, MsgInvalidUrl} ]_vars

\* C4 witness: a submission with a whitespace-only title and a well-formed
\* URL has just been rejected.
BlankTitleRejected ==
  /\ lastOp.op = "addBookmark"
  /\ title # << >> /\ Blank(title)
  /\ ParsesAsURL(Trim(url))
  /\ error = MsgRequired
  /\ insertReq.stage = "idle"

\* C5: a successful insert response with a row R whose identifier is not in
\* the list makes the list R followed by the previous list.
SuccessfulAddPrepends ==
  [][ lastOp'.op = "addResponse" /\ mounted
      /\ insertReq.data.id \notin IdsOf(bookmarks)
        => bookmarks' = <<insertReq.data>> \o bookmarks ]_vars

\* C5 witness: the response's row is now first of a list of two rows.
AddedInFrontOfOlderRow ==
  /\ lastOp.op = "addResponse"
  /\ Len(bookmarks) = 2
  /\ bookmarks[1] = lastOp.row
  /\ lastOp.row \in store

\* the delete request is awaiting the store's response
DeleteInFlight(req) == req.stage \in {"sent", "done"}

\* C6: deleteBookmark(X) removes X in the step of the click, before the store
\* has answered; while the request is in flight and no insert of X arrives,
\* X stays absent.
OptimisticDeleteIsImmediate ==
  [][ /\ lastOp'.op = "deleteBookmark"
        => /\ lastOp'.row.id \in IdsOf(bookmarks)
           /\ lastOp'.row.id \notin IdsOf(bookmarks')
           /\ deleteReq'.stage = "sent"
           /\ deleteReq'.id = lastOp'.row.id
      /\ ( /\ DeleteInFlight(deleteReq) /\ DeleteInFlight(deleteReq')
           /\ deleteReq.id \notin IdsOf(bookmarks)
           /\ ~(lastOp'.op \in {"addResponse", "onInsert"} /\ lastOp'.row.id = deleteReq.id) )
        => deleteReq.id \notin IdsOf(bookmarks') ]_vars

\* C6 witness: the store still holds X and has not answered, X is gone from
\* a list that keeps another row.
RemovedBeforeResponse ==
  /\ deleteReq.stage = "sent"
  /\ deleteReq.id \notin IdsOf(bookmarks)
  /\ \E r \in store : r.id = deleteReq.id
  /\ Len(bookmarks) = 1

MarkerFollowsHighlightWindow ==
  \A id \in Ids :
    /\ age[id] \in 0..(HighlightWindow - 1) => id \in newIds
    /\ age[id] > HighlightWindow => id \notin newIds

\* C9: at most one subscription of the instance is live.
AtMostOneLiveSubscription == Cardinality(LiveChannels) <= 1

\* C9 witness: the effect has re-run; the first channel is retired and the
\* second is joined.
ResubscribedAfterIdentityChange ==
  /\ Len(channels) = 2
  /\ ~Live(channels[1])
  /\ channels[2].state = "joined"
  /\ channels[2].user_id = "u2"

\* C10: once the component is unmounted no subscription of it is live.
NoLiveSubscriptionAfterUnmount == ~mounted => LiveChannels = {}

\* C10 witness: the component was unmounted while connected and its channel
\* has been closed.
UnmountedWhileConnected ==
  /\ ~mounted
  /\ realtimeStatus = "connected"
  /\ channels[Len(channels)].state = "closed"
  /\ lastOp.op = "CLOSED"

\* C11 as stated: the status changes only along connecting -> connected,
\* connecting -> error, connected -> error, and from error or connected back
\* to connecting while a fresh subscribe attempt is pending.
StatusFollowsStateMachine ==
  [][ realtimeStatus' # realtimeStatus
        => \/ realtimeStatus = "connecting" /\ realtimeStatus' \in {"connected", "error"}
           \/ realtimeStatus = "connected" /\ realtimeStatus' = "error"
           \/ /\ realtimeStatus' = "connecting"
              /\ channels'[channelRef'].state = "joining" ]_vars

\* C11 amended: the status changes only in a subscribe status callback of a
\* mounted component, and then to the value of that event: connected on
\* SUBSCRIBED (also from error), error on CHANNEL_ERROR and TIMED_OUT,
\* connecting on CLOSED; a fresh subscribe attempt by itself leaves it alone.
StatusChangesOnlyByStatusEvent ==
  [][ /\ realtimeStatus' # realtimeStatus => lastOp'.op \in AllStatuses /\ mounted
      /\ lastOp'.op \in AllStatuses /\ mounted
           => /\ lastOp'.op = "SUBSCRIBED" => realtimeStatus' = "connected"
              /\ lastOp'.op \in {"CHANNEL_ERROR", "TIMED_OUT"} => realtimeStatus' = "error"
              /\ lastOp'.op = "CLOSED" => realtimeStatus' = "connecting"
      /\ lastOp'.op = "effect" => realtimeStatus' = realtimeStatus ]_vars

\* C11 witness: after a re-subscription the CLOSED of the retired channel has
\* put the status back to connecting while the fresh channel is joining.
BackToConnectingOnResubscribe ==
  /\ mounted
  /\ lastOp.op = "CLOSED"
  /\ realtimeStatus = "connecting"
  /\ Len(channels) = 2
  /\ channels[1].state = "closed"
  /\ channels[2].state = "joining"

\* C12: an add submission runs only while no insert request is in flight,
\* and while one is in flight the busy flag is set: a second request is never
\* issued and none is queued behind the first.
OneInsertInFlight ==
  [][ /\ lastOp'.op = "addBookmark" => insertReq.stage = "idle" /\ ~loading
      /\ lastOp'.op = "addBookmark" /\ insertReq'.stage # "idle"
           => insertReq'.stage = "sent" /\ loading'
      /\ insertReq.stage # "idle" /\ mounted => loading ]_vars

\* C12 witness: the store has answered an insert whose response the tab has
\* not handled yet; the busy flag is set and the form still holds its input.
InsertAwaitingResponse ==
  /\ insertReq.stage = "done"
  /\ insertReq.ok
  /\ loading
  /\ url # << >> /\ title # << >>
  /\ ValidationError(url, title) = NoError

\* C13: a delete starts only while no delete request or rollback re-fetch is
\* pending, and while one is pending the deleting marker names its record.
OneDeleteInFlight ==
  [][ /\ lastOp'.op = "deleteBookmark"
           => deleteReq.stage = "idle" /\ deleting = NoId
      /\ deleteReq'.stage # "idle" => deleting' = deleteReq'.id
      /\ deleteReq'.stage = "idle" /\ mounted => deleting' = NoId ]_vars

\* C13 witness: the rollback re-fetch of a rejected delete of row 1 is
\* pending while row 2 is rendered; the marker still names row 1.
RollbackPendingForMarkedRow ==
  /\ deleteReq.stage = "fetchSent"
  /\ deleting = 1
  /\ IdsOf(bookmarks) = {2}

\* C14 as stated: neither a pending add nor a pending delete of another
\* record blocks the delete of a rendered record.
DeleteNeverBlockedByOtherWrites ==
  mounted => \A id \in IdsOf(bookmarks) \ {deleteReq.id} : ENABLED DeleteBookmark(id)

\* C14 amended: a pending add does not block deleting, a pending delete (or
\* its rollback re-fetch) blocks the delete of every record: a rendered
\* record can be deleted exactly while no delete is pending.
DeleteBlockedOnlyByPendingDelete ==
  mounted => \A id \in IdsOf(bookmarks) :
               (ENABLED DeleteBookmark(id)) <=> deleteReq.stage = "idle"

\* C14 witness: a delete has just been started while an insert request is in
\* flight, and another record is rendered whose delete is now blocked.
DeleteStartedDuringAdd ==
  /\ lastOp.op = "deleteBookmark"
  /\ loading /\ insertReq.stage = "sent"
  /\ deleteReq.stage = "sent"
  /\ \E id \in IdsOf(bookmarks) : id # deleteReq.id /\ ~ENABLED DeleteBookmark(id)

\* C15: a rejected delete is followed by the rollback re-fetch, and when the
\* handling of the rejection has completed an error message is set.
RejectedDeleteSurfacesMessage ==
  [][ /\ lastOp'.op = "deleteResponseError" => deleteReq'.stage = "fetchSent"
      /\ lastOp'.op = "fetchResponse" /\ mounted => error' # NoError ]_vars

\* C16: from the submission to the handling of a failed insert no step of
\* the add changes the list, the marker set or the timers; the handling of
\* the failure sets the error message and releases the busy flag.
FailedInsertChangesNothing ==
  [][ /\ lastOp'.op \in {"addBookmark", "storeInsertRejected", "addResponseError"}
           => bookmarks' = bookmarks /\ newIds' = newIds /\ timers' = timers
      /\ lastOp'.op = "addResponseError" /\ mounted
           => /\ error' = MsgInsertFailed
              /\ loading /\ ~loading'
              /\ insertReq'.stage = "idle"
              /\ url' = url /\ title' = title ]_vars

\* C16 witness: a failed insert has just been handled; the list still holds
\* its row, no marker is set and the form keeps its input.
InsertFailureHandled ==
  /\ lastOp.op = "addResponseError"
  /\ error = MsgInsertFailed
  /\ ~loading
  /\ Len(bookmarks) = 1 /\ newIds = {}
  /\ url = GoodUrl /\ title = GoodTitle

\* C17: in every reachable state the list is ordered newest-first by
\* created_at.
ListNewestFirst ==
  \A i, j \in 1..Len(bookmarks) :
    i < j => bookmarks[i].created_at >= bookmarks[j].created_at

\* C18: while the optimistic delete of X is pending, a notification for X
\* leaves the list unchanged; a DELETE notification for a record that is not
\* in the list leaves the list unchanged.
ArrivalsAroundRemovalAreNoOps ==
  [][ /\ ( /\ mounted
           /\ lastOp'.op \in {"onInsert", "onDelete"}
           /\ deleteReq.stage # "idle"
           /\ lastOp'.row.id = deleteReq.id )
        => bookmarks' = bookmarks
      /\ lastOp'.op = "onDelete" /\ lastOp'.row.id \notin IdsOf(bookmarks)
        => bookmarks' = bookmarks ]_vars

\* no request or re-fetch is in flight and every notification has been
\* delivered
Quiescent ==
  /\ insertReq.stage = "idle"
  /\ deleteReq.stage = "idle"
  /\ \A i \in LiveChannels : channels[i].queue = << >>

\* C19: whenever no request or re-fetch is in flight and every notification
\* has been delivered, the list of a subscribed tab holds exactly the records
\* the store holds for its owner.
QuiescentListEqualsStore ==
  Quiescent =>
    { bookmarks[i] : i \in 1..Len(bookmarks) } = { r \in store : r.user_id = user }

\* C20: exactly one client instance has been constructed, and it is the one
\* every subscription and request goes through.
ExactlyOneClientConstructed == clients = 1 /\ supabaseRef = 1

\* C21 as stated: sign-out tears down the active subscription first, then
\* terminates the session, then navigates; no subscription is live at the
\* moment the session is terminated.
SignOutOrderNoLiveSubscription ==
  [][ /\ lastOp'.op = "signOut" => channelRef \notin LiveChannels'
      /\ lastOp'.op = "authSignOut"
           => signOutPc = "removed" /\ LiveChannels = {}
      /\ lastOp'.op = "navigate" => signOutPc = "signedOut" ]_vars

\* C21 amended: sign-out tears down every live subscription first, then
\* terminates the session, then navigates; between teardown and termination
\* only a re-run of the subscription effect makes a subscription live.
SignOutOrder ==
  [][ /\ lastOp'.op = "signOut" => signOutPc' = "removed" /\ LiveChannels' = {}
      /\ lastOp'.op = "authSignOut" => signOutPc = "removed"
      /\ lastOp'.op = "navigate" => signOutPc = "signedOut" /\ LiveChannels' = {}
      /\ signOutPc = "removed" /\ signOutPc' = "removed" /\ lastOp'.op # "effect"
           => LiveChannels' \subseteq LiveChannels ]_vars

\* C21 witness: the session has just been terminated while the component is
\* still mounted; its only subscription was joined and is torn down.
SessionTerminatedAfterTeardown ==
  /\ lastOp.op = "authSignOut"
  /\ signOutPc = "signedOut"
  /\ mounted
  /\ realtimeStatus = "connected"
  /\ Len(channels) = 1 /\ ~Live(channels[1])

\* a path under the protected prefix /dashboard
UnderDashboard(path) == path # << >> /\ Head(path) = "dashboard"

\* C22: a request without a session to a path under /dashboard is answered
\* by the gate with a redirect and never gets the dashboard content; with a
\* session it passes the gate; a path outside the prefix is never redirected
\* by the gate.
GateProtectsDashboard ==
  request.sent =>
    /\ UnderDashboard(request.path) /\ ~request.user
         => response.gate = "redirect" /\ response.page = "none"
    /\ UnderDashboard(request.path) /\ request.user => response.gate = "next"
    /\ ~UnderDashboard(request.path) => response.gate = "next"
    /\ response.page = "content" => request.user

\* C22 witness: a request without a session to a path below /dashboard has
\* been redirected by the gate.
SubPathRedirected ==
  /\ lastOp.op = "middleware"
  /\ request.sent /\ ~request.user
  /\ request.path = << "dashboard", "settings" >>
  /\ response.gate = "redirect"

\* C23: while the current subscription is live the status is connected only
\* if that subscription is joined, and a status event of another (retired)
\* subscription leaves the status unchanged.
StatusReflectsCurrentSubscription ==
  [][ /\ mounted' /\ realtimeStatus' = "connected" /\ channelRef' \in LiveChannels'
           => channels'[channelRef'].state = "joined"
      /\ ( /\ lastOp'.op \in AllStatuses
           /\ \E i \in 1..Len(channels) :
                i # channelRef /\ channels'[i].state # channels[i].state )
           => realtimeStatus' = realtimeStatus ]_vars

\* C24: an addToList call for an identifier that is already in the list
\* leaves the marker set unchanged and starts no timer.
MarkerOnlyOnInsertion ==
  [][ Arrival /\ lastOp'.row.id \in IdsOf(bookmarks)
        => newIds' = newIds /\ timers' = timers ]_vars

BusyFlagsReleased ==
  /\ [](loading <=> insertReq.stage # "idle")
  /\ [](deleting # NoId <=> deleteReq.stage # "idle")
  /\ (insertReq.stage = "done") ~> (~loading)
  /\ (deleteReq.stage = "done" /\ deleteReq.ok) ~> (deleting = NoId)
  /\ (deleteReq.stage = "fetchDone") ~> (deleting = NoId)

\* C26 witness: a rejected insert has been handled while a rejected delete
\* has been rolled back; both flags are released.
BothFlagsReleasedAfterFailures ==
  /\ lastOp.op = "fetchResponse"
  /\ error = MsgInsertFailed
  /\ ~loading /\ deleting = NoId
  /\ insertReq.stage = "idle" /\ deleteReq.stage = "idle"

\* the rows of a list whose identifier is not id, in their order
Others(list, id) == SelectSeq(list, LAMBDA r : r.id # id)

\* C27: a removeFromList call for X leaves exactly the records other than X,
\* in their order, and leaves the list unchanged when X is absent; an
\* addToList call that inserts a record leaves the previous list, in its
\* order, behind the new record.
OnlyTargetedRecordChanges ==
  [][ /\ lastOp'.op \in {"deleteBookmark", "onDelete"}
           => /\ bookmarks' = Others(bookmarks, lastOp'.row.id)
              /\ lastOp'.row.id \notin IdsOf(bookmarks')
              /\ lastOp'.row.id \notin IdsOf(bookmarks) => bookmarks' = bookmarks
      /\ Arrival /\ lastOp'.row.id \notin IdsOf(bookmarks)
           => /\ Len(bookmarks') = Len(bookmarks) + 1
              /\ bookmarks'[1] = lastOp'.row
              /\ \A i \in 1..Len(bookmarks) : bookmarks'[i + 1] = bookmarks[i] ]_vars

\* C27 witness: a DELETE notification has removed the first of two rendered
\* rows and the other row is still there.
OtherRowKeptAfterNotification ==
  /\ lastOp.op = "onDelete"
  /\ lastOp.row.id = 2
  /\ IdsOf(bookmarks) = {1}
  /\ deleteReq.stage = "idle"

=============================================================================
